---- MODULE Spec2Model ----
\* Model of the batch fetch-and-extract scripts of the repository:
\*   src/web_scraping/main.py   scrape_reddit_python_topics, main
\*   src/async_py/main.py       web_scraper_example, simple_example
\* (src/web_scraping/copy.py holds the same scraper without its comments.)
\* One script runs per behaviour; its inputs are the fault each target meets
\* and the document each target serves.
EXTENDS Integers, Sequences, FiniteSets, TLC

\* ---------------------------------------------------------------------------
\* Program constants and bounds
\* ---------------------------------------------------------------------------

\* time.sleep(2) after a scraped subreddit
PerTargetDelay == 2
\* text[:100] + '...' if len(text) > 100
TitleLimit == 100
\* len(text) > 3 for headings
MinHeadingLen == 3
\* len(text) > 1 for links
MinLinkLen == 1
\* longest time one requests.get may take in the model
MaxFetchTime == 1
\* most headings and most links of a document of DocumentPool
MaxHeadings == 1
MaxLinks == 2

\* the three subreddits, by subreddit_name = url.split('/')[-1]
subreddits == <<"Python", "programming", "learnpython">>

\* the three sites of web_scraper_example
sites == <<"json", "uuid", "user-agent">>

NumTargets == Len(subreddits)
Targets == 1..NumTargets

\* ---------------------------------------------------------------------------
\* Text: a string is a sequence of one-character strings
\* ---------------------------------------------------------------------------

Upper == <<"A","B","C","D","E","F","G","H","I","J","K","L","M",
           "N","O","P","Q","R","S","T","U","V","W","X","Y","Z">>
LowerLetters == <<"a","b","c","d","e","f","g","h","i","j","k","l","m",
                  "n","o","p","q","r","s","t","u","v","w","x","y","z">>

UpperLower == [c \in {Upper[i] : i \in 1..Len(Upper)} |->
                 LowerLetters[CHOOSE i \in 1..Len(Upper) : Upper[i] = c]]

\* str.lower() on one character
LowerChar(c) == IF c \in DOMAIN UpperLower THEN UpperLower[c] ELSE c

\* str.lower()
Lower(text) == [i \in 1..Len(text) |-> LowerChar(text[i])]

Whitespace == {" ", "\t", "\n"}

RECURSIVE StripLeft(_)
\* str.lstrip()
StripLeft(text) ==
  IF text # <<>> /\ Head(text) \in Whitespace THEN StripLeft(Tail(text)) ELSE text

RECURSIVE StripRight(_)
\* str.rstrip()
StripRight(text) ==
  IF text # <<>> /\ text[Len(text)] \in Whitespace
  THEN StripRight(SubSeq(text, 1, Len(text) - 1))
  ELSE text

\* get_text(strip=True) of an element that holds one string
Strip(text) == StripRight(StripLeft(text))

\* the Python test  sub in text
Contains(text, sub) ==
  \E i \in 0..(Len(text) - Len(sub)) :
     \A k \in 1..Len(sub) : text[i + k] = sub[k]

Keywords == { <<"p","y","t","h","o","n">>,
              <<"p","r","o","g","r","a","m","m","i","n","g">>,
              <<"c","o","d","e">>,
              <<"d","e","v","e","l","o","p","e","r">>,
              <<"c","o","d","i","n","g">> }

CommentsMarker == <<"/","c","o","m","m","e","n","t","s","/">>

Ellipsis == <<".", ".", ".">>

\* variant: a title of exactly the limit is truncated too
TruncateTitleAtLimit(text) ==
  IF Len(text) >= TitleLimit THEN SubSeq(text, 1, TitleLimit) \o Ellipsis ELSE text

\* text[:100] + '...' if len(text) > 100 else text
TruncateTitle(text) ==
  IF Len(text) > TitleLimit THEN SubSeq(text, 1, TitleLimit) \o Ellipsis ELSE text

\* variant: the keywords are compared with the text as it is
IsTopicCaseSensitive(text) ==
  /\ Len(text) > 0
  /\ Len(text) > MinHeadingLen
  /\ \E kw \in Keywords : Contains(text, kw)

\* the filter of the heading loop
IsTopic(text) ==
  /\ Len(text) > 0
  /\ Len(text) > MinHeadingLen
  /\ \E kw \in Keywords : Contains(Lower(text), kw)

RECURSIVE FilterTopics(_)
\* the loop over soup.find_all(['h1','h2','h3','h4'])
FilterTopics(headings) ==
  IF headings = <<>> THEN <<>>
  ELSE LET text == Strip(Head(headings))
           rest == FilterTopics(Tail(headings))
       IN IF IsTopic(text)
          THEN <<[title |-> text, type |-> "python_topic"]>> \o rest
          ELSE rest

RECURSIVE FilterDiscussionsNoAdd(_, _)
\* variant: the url of a kept link is not added to seen_urls
FilterDiscussionsNoAdd(links, seen) ==
  IF links = <<>> THEN <<>>
  ELSE LET text == Strip(Head(links).text)
           href == Head(links).href
       IN IF /\ Len(text) > 0
             /\ Len(text) > MinLinkLen
             /\ Contains(href, CommentsMarker)
             /\ href \notin seen
          THEN <<[title |-> TruncateTitle(text), url |-> href, type |-> "discussion"]>>
                 \o FilterDiscussionsNoAdd(Tail(links), seen)
          ELSE FilterDiscussionsNoAdd(Tail(links), seen)

RECURSIVE FilterDiscussions(_, _)
\* the loop over soup.find_all('a', href=True), with its seen_urls set
FilterDiscussions(links, seen) ==
  IF links = <<>> THEN <<>>
  ELSE LET text == Strip(Head(links).text)
           href == Head(links).href
       IN IF /\ Len(text) > 0
             /\ Len(text) > MinLinkLen
             /\ Contains(href, CommentsMarker)
             /\ href \notin seen
          THEN <<[title |-> TruncateTitle(text), url |-> href, type |-> "discussion"]>>
                 \o FilterDiscussions(Tail(links), seen \cup {href})
          ELSE FilterDiscussions(Tail(links), seen)

\* ---------------------------------------------------------------------------
\* Documents the fetch may return (already parsed: heading texts and links)
\* ---------------------------------------------------------------------------

HeadPython == <<"L","e","a","r","n","i","n","g"," ","P","y","t","h","o","n">>
HeadHi     == <<"H","i">>
HeadNews   == <<"N","e","w","s"," ","t","o","d","a","y">>
TextShort  == <<"A","s","k"," ","m","e">>
TextLong   == [i \in 1..(TitleLimit + 1) |-> "x"]
HrefOne    == <<"/","r","/","c","o","m","m","e","n","t","s","/","1">>
HrefTwo    == <<"/","r","/","c","o","m","m","e","n","t","s","/","2">>
HrefWiki   == <<"/","r","/","w","i","k","i">>

DocEmpty == [headings |-> <<HeadHi, HeadNews>>,
             links    |-> <<[text |-> TextShort, href |-> HrefWiki]>>]
DocTopics == [headings |-> <<HeadPython, HeadHi>>,
              links    |-> <<[text |-> TextShort, href |-> HrefOne],
                             [text |-> TextLong,  href |-> HrefOne]>>]
DocLinks == [headings |-> <<HeadNews>>,
             links    |-> <<[text |-> TextLong,  href |-> HrefTwo],
                            [text |-> TextShort, href |-> HrefOne]>>]

Docs == {DocEmpty, DocTopics, DocLinks}

\* Further documents, built from a pool of headings and a pool of links, that
\* the first subreddit may serve
HeadLearning == <<"L","e","a","r","n","i","n","g"," ","P","y","t","h","o","n"," ",
                  "B","a","s","i","c","s">>
HeadCODE     == <<"C","O","D","E">>
HeadPadded   == <<" "," ","c","o","d","e"," ">>
HeadDecoder  == <<"D","e","c","o","d","e","r">>
TextExact    == [i \in 1..TitleLimit |-> "y"]
TextLonger   == [i \in 1..(TitleLimit + 5) |-> IF i <= TitleLimit THEN "a" ELSE "b"]
TextOther    == <<"W","h","y","?">>
TextOneChar  == <<"x">>
HrefOneUpper == <<"/","R","/","c","o","m","m","e","n","t","s","/","1">>

HeadingPool == {HeadLearning, HeadHi, HeadNews, HeadCODE, HeadPadded, HeadDecoder}

LinkPool == { [text |-> TextShort,   href |-> HrefOne],
              [text |-> TextLong,    href |-> HrefOne],
              [text |-> <<>>,        href |-> HrefOne],
              [text |-> TextOther,   href |-> HrefOneUpper],
              [text |-> TextExact,   href |-> HrefTwo],
              [text |-> TextLonger,  href |-> HrefTwo],
              [text |-> TextOneChar, href |-> HrefTwo],
              [text |-> TextShort,   href |-> HrefWiki] }

SeqsUpTo(S, n) == UNION {[1..k -> S] : k \in 0..n}

DocumentPool ==
  {[headings |-> h, links |-> <<>>] : h \in SeqsUpTo(HeadingPool, MaxHeadings)}
  \cup {[headings |-> <<>>, links |-> l] : l \in SeqsUpTo(LinkPool, MaxLinks)}

\* what can go wrong for one target:
\*   network  requests.get raises (connection error, DNS failure, timeout)
\*   http     raise_for_status raises HTTPError
\*   parse    BeautifulSoup raises
\*   extract  an exception is raised in the link loop, after the topics
\*            were collected
Faults == {"none", "network", "http", "parse", "extract"}

\* the faults the async demo can meet: it never calls raise_for_status, so an
\* error status with a JSON body ("http") is not a failure for it; "parse" is
\* response.json() raising on a body that is not JSON
AsyncFaults == {"none", "network", "http", "parse"}

\* a session.get of async_requests returns a response or raises
RequestFaults == {"none", "network"}

\* the scripts that run a batch of targets or of coroutines
BatchScripts == {"scraper", "web_scraper_example", "simple_example", "multiple_async_tasks",
                 "async_requests"}

\* the choices of the poster's main: "1" posts a single note now, "3" (and
\* "2") set up the schedule and run the scheduler
PosterScripts == {"post_single_note", "run_scheduler"}

Scripts == BatchScripts \cup PosterScripts

\* time.sleep(60) of run_scheduler
PollInterval == 60

\* the calls of run_pending that are followed
MaxPolls == 2

\* the calls of setup_schedule that are followed
MaxSetups == 2

\* the post_times setup_schedule is called with: none given (the default
\* ["09:00"]), or two times
PostTimes == {<<"09:00">>, <<"09:00", "15:00">>}

\* post_times = ["09:00"] when setup_schedule is given None
DefaultTimes == <<"09:00">>

\* the argument of a setup_schedule call: None, or a list of times
SetupArgs == {[given |-> FALSE, times |-> <<>>]} \cup {[given |-> TRUE, times |-> t] : t \in PostTimes}

\* no setup_schedule call yet
NoTimes == [given |-> FALSE, times |-> <<>>]

\* post_random_note returns what post_note returns, returns False without
\* notes, or raises (a note without 'content')
PostOutcomes == {"True", "False", "raises"}

\* the XPaths post_note tries for the note input, in their order; the third
\* is no XPath ("@placeholder*=") and is refused by the browser every time
note_selectors == <<"button Write a note", "button New note", "textarea placeholder",
                    "div contenteditable">>
InvalidSelectors == {3}

\* the XPaths post_note tries for the publish button, in their order
publish_selectors == <<"button Publish", "button Post", "button submit">>

\* what wait.until(element_to_be_clickable(...)) does for a selector: it
\* returns the element, or raises (time-out, invalid selector)
NoteProbe == {"clickable", "raises"}

\* what find_element and is_enabled do for a publish selector: a button
\* that is enabled, a button that is not, or find_element raises
PublishProbe == {"enabled", "disabled", "raises"}

\* the pages post_note can meet: the outcome of each probe, of the click and
\* send_keys on the note input, and of the click on the publish button
Pages ==
  {pg \in [note : [1..Len(note_selectors) -> NoteProbe], typing : {"ok", "raises"},
           publish : [1..Len(publish_selectors) -> PublishProbe], click : {"ok", "raises"}] :
     \A i \in InvalidSelectors : pg.note[i] = "raises"}

\* self.notes: no note loaded, a note without 'content', or notes as they
\* should be
NotesStates == {"none", "bad", "good"}

\* post_random_note has not been called
NoPost == [probed |-> <<>>, note_element |-> 0, typed |-> FALSE, found |-> <<>>,
           publish_button |-> 0, clicked |-> 0, result |-> "none"]

\* no posting run has begun
NoRun == [steps |-> <<>>, posted |-> FALSE, result |-> "none"]

\* the demos whose coroutines sleep and return a string
SleepScripts == {"simple_example", "multiple_async_tasks"}

\* simple_example: do_work("Task A", 2), ("Task B", 1), ("Task C", 1.5), in
\* half seconds
workNames  == <<"Task A", "Task B", "Task C">>
workDelays == <<4, 2, 3>>

\* multiple_async_tasks: task("Task A", 2), ("Task B", 1), ("Task C", 3), in
\* half seconds
taskDelays == <<4, 2, 6>>

NoResponse == [status |-> "none", content |-> [headings |-> <<>>, links |-> <<>>]]
NoSoup     == [headings |-> <<>>, links |-> <<>>]
NoData     == [subreddit |-> "", url |-> "", scraped_at |-> 0]

\* ---------------------------------------------------------------------------
\* State
\* ---------------------------------------------------------------------------

VARIABLES
  script,           \* which script runs
  pc,               \* position of the main flow of control
  fault,            \* input: what goes wrong for each target
  doc,              \* input: the document each target serves
  idx,              \* position of the for loop over subreddits (0 = not begun)
  response,         \* local response
  soup,             \* local soup
  subreddit_data,   \* local subreddit_data
  topics,           \* local topics
  discussions,      \* local discussions
  all_data,         \* the accumulated list
  data,             \* main's data = the returned list
  out,              \* the lines printed so far
  clock,            \* time
  reqLog,           \* the requests issued: target, time issued, time completed
  task,             \* async: state of each coroutine
  taskResult,       \* async: value returned by each finished coroutine
  finishOrder,      \* async: the order in which the coroutines finished
  results,          \* async: the list gather returned
  success_count,    \* async: success_count
  total_topics,     \* main's total_topics
  total_discussions, \* main's total_discussions
  cancelled,        \* an interrupt signal has been delivered
  files,            \* the files written so far: name -> content
  driver,           \* poster: self.driver, 0 for None, else the browser it names
  quits,            \* poster: for each browser created, the calls of its quit
  jobs,             \* poster: the jobs of the schedule, by their time of day
  pending,          \* poster: the jobs run_pending has yet to run in this poll
  polls,            \* poster: the calls of run_pending so far
  run,              \* poster: the steps and the result of the latest posting run
  post,             \* poster: what post_random_note did in the latest posting run
  setups,           \* poster: the calls of setup_schedule so far
  post_times        \* poster: the post_times argument of the latest setup_schedule call

scraperLocals == <<idx, response, soup, subreddit_data, topics, discussions, all_data>>
mainLocals    == <<data, total_topics, total_discussions>>
asyncVars     == <<task, taskResult, finishOrder, results, success_count>>
timeVars      == <<clock, reqLog>>
inputs        == <<script, fault, doc>>


vars == <<script, pc, fault, doc, idx, response, soup, subreddit_data, topics,
          discussions, all_data, data, out, clock, reqLog, task, taskResult,
          finishOrder, results, success_count, total_topics, total_discussions,
          cancelled, files, driver, quits, jobs, pending, polls, run, post>>

posterVars == <<driver, quits, jobs, pending, polls, run, post, setups, post_times>>
batchVars  == <<scraperLocals, mainLocals, asyncVars, reqLog, files>>

Line(msg, t) == [msg |-> msg, target |-> t]

\* the batches: every combination of faults, with the documents of Docs
BatchInputs ==
  /\ script \in Scripts
  /\ fault \in [Targets -> Faults]
  /\ doc \in [Targets -> Docs]
  /\ script = "scraper" =>
       \A t \in Targets : fault[t] \in {"network", "http", "parse"} => doc[t] = DocEmpty
  /\ script = "web_scraper_example" =>
       \A t \in Targets : fault[t] \in AsyncFaults /\ doc[t] = DocEmpty
  /\ script \in SleepScripts =>
       \A t \in Targets : fault[t] = "none" /\ doc[t] = DocEmpty
  /\ script = "async_requests" =>
       \A t \in Targets : fault[t] \in RequestFaults /\ doc[t] = DocEmpty
  /\ script \in PosterScripts =>
       \A t \in Targets : fault[t] = "none" /\ doc[t] = DocEmpty

\* the scraper without faults, its first subreddit serving any document of
\* DocumentPool
DocumentInputs ==
  /\ script = "scraper"
  /\ fault = [t \in Targets |-> "none"]
  /\ \E d \in DocumentPool : doc = [t \in Targets |-> IF t = 1 THEN d ELSE DocEmpty]

Init ==
  /\ BatchInputs \/ DocumentInputs
  /\ pc = IF script = "scraper" THEN "for"
          ELSE IF script = "run_scheduler" THEN "schedule"
          ELSE IF script = "post_single_note" THEN "m_setup"
          ELSE "gather"
  /\ idx = 0
  /\ response = NoResponse
  /\ soup = NoSoup
  /\ subreddit_data = NoData
  /\ topics = <<>>
  /\ discussions = <<>>
  /\ all_data = <<>>
  /\ data = <<>>
  /\ out = <<>>
  /\ clock = 0
  /\ reqLog = <<>>
  /\ task = [t \in Targets |-> "created"]
  /\ taskResult = <<>>
  /\ finishOrder = <<>>
  /\ results = <<>>
  /\ success_count = 0
  /\ total_topics = 0
  /\ total_discussions = 0
  /\ cancelled = FALSE
  /\ files = <<>>
  /\ driver = 0
  /\ quits = <<>>
  /\ jobs = <<>>
  /\ pending = <<>>
  /\ polls = 0
  /\ run = NoRun
  /\ post = NoPost
  /\ setups = 0
  /\ post_times = NoTimes

\* ---------------------------------------------------------------------------
\* scrape_reddit_python_topics
\* ---------------------------------------------------------------------------

\* variant: the except clause leaves the function instead of continuing
AfterExceptReturn == "returned"

\* where control goes after an except clause of the loop body: the next
\* iteration of the for loop
AfterExcept == "for"

\* variant: the except clause also records an empty outcome for the target
ExceptClauseRecordsFailure(msg) ==
  /\ out' = Append(out, Line(msg, idx))
  /\ pc' = "for"
  /\ all_data' = Append(all_data, [subreddit |-> subreddits[idx], url |-> subreddits[idx],
                                   scraped_at |-> clock, python_topics |-> <<>>,
                                   discussions |-> <<>>])
  /\ UNCHANGED data

\* variant: the except clause swallows the error without printing it
ExceptClauseSilent(msg) ==
  /\ pc' = "for"
  /\ UNCHANGED <<out, all_data, data>>

\* variant: the except clause stores what was extracted before the error
ExceptClauseKeepsPartial(msg) ==
  /\ out' = Append(out, Line(msg, idx))
  /\ pc' = "for"
  /\ all_data' = Append(all_data, [subreddit |-> subreddits[idx], url |-> subreddits[idx],
                                   scraped_at |-> clock,
                                   python_topics |-> IF pc = "links" THEN topics ELSE <<>>,
                                   discussions |-> <<>>])
  /\ UNCHANGED data

\* variant: the except clause raises the error again
ExceptClauseReraise(msg) ==
  /\ pc' = "raised"
  /\ UNCHANGED <<out, all_data, data>>

\* except requests.RequestException / except Exception: print, then continue
ExceptClause(msg) ==
  /\ out' = Append(out, Line(msg, idx))
  /\ pc' = AfterExcept
  /\ UNCHANGED <<all_data, data>>

\* for url in subreddits: take the next url, print "Scraping r/..."
ForNext ==
  /\ script = "scraper" /\ pc = "for" /\ idx < NumTargets
  /\ idx' = idx + 1
  /\ out' = Append(out, Line("Scraping", idx + 1))
  /\ pc' = "get"
  /\ UNCHANGED <<inputs, files, posterVars, cancelled, response, soup, subreddit_data, topics, discussions,
                 all_data, mainLocals, timeVars, asyncVars>>

\* variant: return all_data sits inside the loop body
ForEndEarly ==
  /\ script = "scraper" /\ pc = "for" /\ idx >= 1
  /\ data' = all_data
  /\ pc' = "returned"
  /\ UNCHANGED <<inputs, files, posterVars, cancelled, scraperLocals, out, total_topics, total_discussions,
                 timeVars, asyncVars>>

\* the loop is exhausted: return all_data
ForEnd ==
  /\ script = "scraper" /\ pc = "for" /\ idx = NumTargets
  /\ data' = all_data
  /\ pc' = "returned"
  /\ UNCHANGED <<inputs, files, posterVars, cancelled, scraperLocals, out, total_topics, total_discussions,
                 timeVars, asyncVars>>

\* response = requests.get(url, headers=headers, timeout=10)
Get ==
  /\ script = "scraper" /\ pc = "get"
  /\ \E d \in 0..MaxFetchTime :
       /\ clock' = clock + d
       /\ reqLog' = Append(reqLog, [target |-> idx, issued |-> clock,
                                    completed |-> clock + d])
  /\ IF fault[idx] = "network"
     THEN /\ ExceptClause("Error fetching")
          /\ UNCHANGED response
     ELSE /\ response' = [status  |-> IF fault[idx] = "http" THEN "error" ELSE "ok",
                          content |-> doc[idx]]
          /\ pc' = "status"
          /\ UNCHANGED <<out, all_data, data>>
  /\ UNCHANGED <<inputs, files, posterVars, cancelled, idx, soup, subreddit_data, topics, discussions,
                 total_topics, total_discussions, asyncVars>>

\* response.raise_for_status()
RaiseForStatus ==
  /\ script = "scraper" /\ pc = "status"
  /\ IF response.status = "error"
     THEN ExceptClause("Error fetching")
     ELSE /\ pc' = "soup"
          /\ UNCHANGED <<out, all_data, data>>
  /\ UNCHANGED <<inputs, files, posterVars, cancelled, idx, response, soup, subreddit_data, topics, discussions,
                 total_topics, total_discussions, timeVars, asyncVars>>

\* soup = BeautifulSoup(...); subreddit_data = {...}
MakeSoup ==
  /\ script = "scraper" /\ pc = "soup"
  /\ IF fault[idx] = "parse"
     THEN /\ ExceptClause("Error parsing")
          /\ UNCHANGED <<soup, subreddit_data>>
     ELSE /\ soup' = response.content
          /\ subreddit_data' = [subreddit |-> subreddits[idx], url |-> subreddits[idx],
                                scraped_at |-> clock]
          /\ pc' = "topics"
          /\ UNCHANGED <<out, all_data, data>>
  /\ UNCHANGED <<inputs, files, posterVars, cancelled, idx, response, topics, discussions,
                 total_topics, total_discussions, timeVars, asyncVars>>

\* variant: topics is created once, before the loop over the subreddits
TopicsLoopShared ==
  /\ script = "scraper" /\ pc = "topics"
  /\ topics' = topics \o FilterTopics(soup.headings)
  /\ pc' = "links"
  /\ UNCHANGED <<inputs, files, posterVars, cancelled, idx, response, soup, subreddit_data, discussions, all_data,
                 mainLocals, out, timeVars, asyncVars>>

\* topics = []; for heading in soup.find_all([...]): ...
TopicsLoop ==
  /\ script = "scraper" /\ pc = "topics"
  /\ topics' = FilterTopics(soup.headings)
  /\ pc' = "links"
  /\ UNCHANGED <<inputs, files, posterVars, cancelled, idx, response, soup, subreddit_data, discussions, all_data,
                 mainLocals, out, timeVars, asyncVars>>

\* variant: seen_urls is created once, before the loop over the subreddits
SeenFromEarlierTargets ==
  UNION {{all_data[k].discussions[j].url : j \in 1..Len(all_data[k].discussions)} :
           k \in 1..Len(all_data)}

\* seen_urls = set(), at the start of the link loop of each subreddit
SeenAtStart == {}

\* discussions = []; seen_urls = set(); for link in soup.find_all('a', href=True): ...
\* With the fault "extract" the loop raises at its last link.
LinksLoop ==
  /\ script = "scraper" /\ pc = "links"
  /\ IF fault[idx] = "extract"
     THEN /\ discussions' = FilterDiscussions(
                               SubSeq(soup.links, 1, Len(soup.links) - 1), SeenAtStart)
          /\ ExceptClause("Error parsing")
     ELSE /\ discussions' = FilterDiscussions(soup.links, SeenAtStart)
          /\ pc' = "append"
          /\ UNCHANGED <<out, all_data, data>>
  /\ UNCHANGED <<inputs, files, posterVars, cancelled, idx, response, soup, subreddit_data, topics,
                 total_topics, total_discussions, timeVars, asyncVars>>

\* variant: the entry is appended twice
StoreResultTwice ==
  /\ script = "scraper" /\ pc = "append"
  /\ LET full == [subreddit     |-> subreddit_data.subreddit,
                  url           |-> subreddit_data.url,
                  scraped_at    |-> subreddit_data.scraped_at,
                  python_topics |-> topics,
                  discussions   |-> discussions]
     IN /\ subreddit_data' = full
        /\ all_data' = all_data \o <<full, full>>
  /\ pc' = "sleep"
  /\ UNCHANGED <<inputs, files, posterVars, cancelled, idx, response, soup, topics, discussions, mainLocals,
                 out, timeVars, asyncVars>>

\* subreddit_data['python_topics'] = topics; subreddit_data['discussions'] =
\* discussions; all_data.append(subreddit_data)
StoreResult ==
  /\ script = "scraper" /\ pc = "append"
  /\ LET full == [subreddit     |-> subreddit_data.subreddit,
                  url           |-> subreddit_data.url,
                  scraped_at    |-> subreddit_data.scraped_at,
                  python_topics |-> topics,
                  discussions   |-> discussions]
     IN /\ subreddit_data' = full
        /\ all_data' = Append(all_data, full)
  /\ pc' = "sleep"
  /\ UNCHANGED <<inputs, files, posterVars, cancelled, idx, response, soup, topics, discussions, mainLocals, out,
                 timeVars, asyncVars>>

\* time.sleep(2)
Sleep ==
  /\ script = "scraper" /\ pc = "sleep"
  /\ clock' = clock + PerTargetDelay
  /\ pc' = "for"
  /\ UNCHANGED <<inputs, files, posterVars, cancelled, scraperLocals, mainLocals, out, reqLog, asyncVars>>

\* variant: the interrupt is caught and the list collected so far is returned
InterruptScraperReturns ==
  /\ script = "scraper"
  /\ pc \in {"for", "get", "status", "soup", "topics", "links", "append", "sleep"}
  /\ pc' = "returned"
  /\ cancelled' = TRUE
  /\ data' = all_data
  /\ UNCHANGED <<inputs, files, posterVars, scraperLocals, total_topics, total_discussions, out, timeVars,
                 asyncVars>>

\* KeyboardInterrupt while the scraper runs: it is no Exception, so neither
\* except clause catches it; it leaves scrape_reddit_python_topics and main,
\* and data is never assigned
InterruptScraper ==
  /\ script = "scraper"
  /\ pc \in {"for", "get", "status", "soup", "topics", "links", "append", "sleep"}
  /\ pc' = "interrupted"
  /\ cancelled' = TRUE
  /\ UNCHANGED <<inputs, files, posterVars, scraperLocals, mainLocals, out, timeVars, asyncVars>>

\* variant: the total is assigned, not accumulated
SumLenOverwrite(list, key) ==
  IF list = <<>> THEN 0 ELSE Len(list[Len(list)][key])

RECURSIVE SumLen(_, _)
\* the running totals of main's loop: sum of len(subreddit_data.get(key, []))
SumLen(list, key) ==
  IF list = <<>> THEN 0
  ELSE Len(Head(list)[key]) + SumLen(Tail(list), key)

\* the names save_python_data writes to by default
filename_json == "python_topics.json"
filename_csv  == "python_topics.csv"

\* what can go wrong while save_python_data writes
IoFaults == {"none", "json", "csv"}

\* writer.writerow(['Subreddit', 'Type', 'Title', 'URL', 'Scraped At'])
CsvHeader == <<"Subreddit", "Type", "Title", "URL", "Scraped At">>

\* the rows of the topics of one subreddit_data: the URL column is ''
TopicRows(e) ==
  [i \in 1..Len(e.python_topics) |->
     <<e.subreddit, e.python_topics[i].type, e.python_topics[i].title, <<>>, e.scraped_at>>]

\* the rows of the discussions of one subreddit_data
DiscussionRows(e) ==
  [i \in 1..Len(e.discussions) |->
     <<e.subreddit, e.discussions[i].type, e.discussions[i].title, e.discussions[i].url,
       e.scraped_at>>]

RECURSIVE CsvRowsDiscussionsFirst(_)
\* variant: the discussions of a subreddit are written before its topics
CsvRowsDiscussionsFirst(list) ==
  IF list = <<>> THEN <<>>
  ELSE DiscussionRows(Head(list)) \o TopicRows(Head(list))
         \o CsvRowsDiscussionsFirst(Tail(list))

RECURSIVE CsvRows(_)
\* for subreddit_data in data: the topic rows, then the discussion rows
CsvRows(list) ==
  IF list = <<>> THEN <<>>
  ELSE TopicRows(Head(list)) \o DiscussionRows(Head(list)) \o CsvRows(Tail(list))

\* the files after save_python_data(d): nothing is written for an empty d;
\* json.dump writes d as it is; the csv is the header and the rows; when the
\* write of a file fails (io), n of its lines have reached it, and with
\* n = 0 the file could not be opened
save_python_data(d, io, n) ==
  IF d = <<>> THEN files
  ELSE LET lines == <<CsvHeader>> \o CsvRows(d)
           json  == IF io = "json" THEN <<>> ELSE (filename_json :> d)
           csv   == IF io # "csv" THEN (filename_csv :> lines)
                    ELSE IF n = 0 THEN <<>>
                    ELSE (filename_csv :> SubSeq(lines, 1, n))
       IN json @@ csv @@ files

\* the lines save_python_data prints
SaveLines(d, io) ==
  IF d = <<>> THEN <<Line("No data to save", 0)>>
  ELSE <<IF io = "json" THEN [msg |-> "Error saving JSON"]
         ELSE [msg |-> "saved", file |-> filename_json],
         IF io = "csv" THEN [msg |-> "Error saving CSV"]
         ELSE [msg |-> "saved", file |-> filename_csv]>>

\* the line main prints for each subreddit_data
SubredditLines(d) ==
  [k \in 1..Len(d) |-> [msg |-> "r/", subreddit |-> d[k].subreddit,
                        topics |-> Len(d[k].python_topics),
                        discussions |-> Len(d[k].discussions)]]

\* main, after data = scrape_reddit_python_topics()
MainSummary ==
  /\ script = "scraper" /\ pc = "returned"
  /\ IF data # <<>>
     THEN /\ total_topics' = SumLen(data, "python_topics")
          /\ total_discussions' = SumLen(data, "discussions")
          /\ \E io \in IoFaults :
               /\ \E n \in 0..(IF io = "csv" THEN SumLen(data, "python_topics")
                                                    + SumLen(data, "discussions")
                               ELSE 0) :
                    files' = save_python_data(data, io, n)
               /\ out' = out \o SubredditLines(data)
                             \o <<[msg |-> "Total",
                                   topics |-> SumLen(data, "python_topics"),
                                   discussions |-> SumLen(data, "discussions"),
                                   subreddits |-> Len(data)]>>
                             \o SaveLines(data, io)
                             \o <<Line("completed", 0)>>
     ELSE /\ out' = Append(out, Line("Analysis failed", 0))
          /\ UNCHANGED <<total_topics, total_discussions, files>>
  /\ pc' = "exit"
  /\ UNCHANGED <<inputs, posterVars, cancelled, scraperLocals, data, timeVars, asyncVars>>

\* ---------------------------------------------------------------------------
\* web_scraper_example and simple_example: coroutines under asyncio.gather
\* ---------------------------------------------------------------------------

\* the value one coroutine returns: scrape's dict, or do_work's string
CoroutineResult(i) ==
  IF script = "web_scraper_example"
  THEN [url |-> sites[i], success |-> fault[i] \notin {"network", "parse"}]
  ELSE IF script = "simple_example" THEN [text |-> workNames[i], done |-> TRUE]
  ELSE IF script = "multiple_async_tasks" THEN [text |-> workNames[i], result |-> TRUE]
  ELSE [none |-> TRUE]

\* the event loop runs the first step of the coroutines in the order gather
\* received them; each prints its start line and suspends at its await
TaskStart(i) ==
  /\ script # "scraper" /\ pc = "gather"
  /\ task[i] = "created"
  /\ \A j \in Targets : j < i => task[j] # "created"
  /\ task' = [task EXCEPT ![i] = "running"]
  /\ out' = Append(out, Line("starting", i))
  /\ UNCHANGED <<inputs, files, posterVars, cancelled, pc, scraperLocals, mainLocals, timeVars, taskResult,
                 finishOrder, results, success_count>>

\* the sleeps of the script that runs
Delays == IF script = "simple_example" THEN workDelays ELSE taskDelays

\* the line a coroutine prints before it returns
FinishLine(i) ==
  IF script = "simple_example" THEN "finished"
  ELSE IF script = "multiple_async_tasks" THEN "completed"
  ELSE IF script = "async_requests" THEN "done"
  ELSE IF CoroutineResult(i).success THEN "got data"
  ELSE "failed"

\* variant: a coroutine may run to its end before the others have started
TaskFinishBeforeOthersStart(i) ==
  /\ script # "scraper" /\ pc = "gather"
  /\ task[i] = "running"
  /\ task' = [task EXCEPT ![i] = "finished"]
  /\ taskResult' = taskResult @@ (i :> CoroutineResult(i))
  /\ finishOrder' = Append(finishOrder, i)
  /\ out' = Append(out, Line(FinishLine(i), i))
  /\ UNCHANGED <<inputs, files, posterVars, cancelled, pc, scraperLocals, mainLocals, timeVars, results,
                 success_count>>

\* a suspended coroutine is resumed and runs to its return; no coroutine is
\* resumed before all have had their first step; the sleeps of simple_example
\* and multiple_async_tasks end in the order of their delays; a get_url of
\* async_requests has no try: what session.get raises leaves the coroutine,
\* and gather raises it in async_requests
TaskFinish(i) ==
  /\ script # "scraper" /\ pc = "gather"
  /\ task[i] = "running"
  /\ \A j \in Targets : task[j] # "created"
  /\ script \in SleepScripts =>
       \A j \in Targets : task[j] = "running" => Delays[i] <= Delays[j]
  /\ finishOrder' = Append(finishOrder, i)
  /\ IF script = "async_requests" /\ fault[i] # "none"
     THEN /\ task' = [task EXCEPT ![i] = "raised"]
          /\ pc' = "raised"
          /\ UNCHANGED <<taskResult, out>>
     ELSE /\ task' = [task EXCEPT ![i] = "finished"]
          /\ taskResult' = taskResult @@ (i :> CoroutineResult(i))
          /\ out' = Append(out, Line(FinishLine(i), i))
          /\ pc' = pc
  /\ UNCHANGED <<inputs, files, posterVars, cancelled, scraperLocals, mainLocals, timeVars, results,
                 success_count>>

\* variant: the list is in completion order
GatherInCompletionOrder == [k \in Targets |-> taskResult[finishOrder[k]]]

\* the list asyncio.gather returns: the value of the i-th awaitable at
\* position i
GatherResults == [i \in Targets |-> taskResult[i]]

\* results = await asyncio.gather(*tasks), once every coroutine has returned;
\* async_requests awaits gather and drops its list
GatherReturn ==
  /\ script # "scraper" /\ pc = "gather"
  /\ \A i \in Targets : task[i] = "finished"
  /\ results' = IF script = "async_requests" THEN results ELSE GatherResults
  /\ pc' = "summary"
  /\ UNCHANGED <<inputs, files, posterVars, cancelled, scraperLocals, mainLocals, out, timeVars, task, taskResult,
                 finishOrder, success_count>>

\* success_count = sum(1 for r in results if r["success"]), and the prints
AsyncSummary ==
  /\ script # "scraper" /\ pc = "summary"
  /\ IF script = "web_scraper_example"
     THEN /\ success_count' = Cardinality({i \in DOMAIN results : results[i].success})
          /\ out' = Append(out, [msg |-> "Success",
                                 count |-> Cardinality({i \in DOMAIN results :
                                                          results[i].success}),
                                 of |-> Len(sites)])
     ELSE /\ out' = IF script = "async_requests"
                    THEN Append(out, Line("Total time", 0))
                    ELSE IF script = "multiple_async_tasks"
                    THEN out \o <<Line("All tasks completed", 0),
                                  [msg |-> "Results", list |-> results]>>
                    ELSE Append(out, [msg |-> "Results", list |-> results])
          /\ UNCHANGED success_count
  /\ pc' = "exit"
  /\ UNCHANGED <<inputs, files, posterVars, cancelled, scraperLocals, mainLocals, timeVars, task, taskResult,
                 finishOrder, results>>

RECURSIVE FailedLines(_)
\* the "failed" lines of the suspended scrape coroutines, in task order
FailedLines(ts) ==
  IF ts = <<>> THEN <<>>
  ELSE IF task[Head(ts)] = "running"
       THEN <<Line("failed", Head(ts))>> \o FailedLines(Tail(ts))
       ELSE FailedLines(Tail(ts))

\* KeyboardInterrupt while gather is awaited: asyncio.run cancels the tasks.
\* A suspended scrape catches the CancelledError in its bare except and
\* returns its failure dict; a do_work is simply cancelled; gather itself is
\* cancelled, so results is never assigned
InterruptAsync ==
  /\ script # "scraper" /\ pc = "gather"
  /\ pc' = "interrupted"
  /\ cancelled' = TRUE
  /\ IF script = "web_scraper_example"
     THEN /\ task' = [i \in Targets |-> IF task[i] = "running" THEN "finished"
                                        ELSE IF task[i] = "created" THEN "cancelled"
                                        ELSE task[i]]
          /\ taskResult' = [i \in {j \in Targets : task[j] \in {"running", "finished"}} |->
                              IF task[i] = "running"
                              THEN [url |-> sites[i], success |-> FALSE]
                              ELSE taskResult[i]]
          /\ out' = out \o FailedLines([i \in Targets |-> i])
     ELSE /\ task' = [i \in Targets |-> IF task[i] = "finished" THEN "finished"
                                        ELSE "cancelled"]
          /\ UNCHANGED <<taskResult, out>>
  /\ UNCHANGED <<inputs, files, posterVars, scraperLocals, mainLocals, timeVars, finishOrder, results,
                 success_count>>

\* ---------------------------------------------------------------------------
\* SubstackNotesPoster
\* ---------------------------------------------------------------------------

\* a step of a posting run and how it went
Did(name, ok) == [name |-> name, ok |-> ok]

RECURSIVE InOrder(_)
\* the members of a set of job positions, in the order of the schedule
InOrder(S) ==
  IF S = {} THEN <<>>
  ELSE LET m == CHOOSE j \in S : \A k \in S : j <= k
       IN <<m>> \o InOrder(S \ {m})

RECURSIVE NoteLoopNoBreak(_, _)
\* variant: the loop does not break at the first element it gets
NoteLoopNoBreak(pg, i) ==
  IF i > Len(note_selectors) THEN <<>>
  ELSE <<i>> \o NoteLoopNoBreak(pg, i + 1)

RECURSIVE NoteLoop(_, _)
\* for selector in note_selectors: try: note_element = wait.until(...); break
\* except: continue -- the selectors probed from i on, the last being the
\* one that gave the element, if any did
NoteLoop(pg, i) ==
  IF i > Len(note_selectors) THEN <<>>
  ELSE IF pg.note[i] = "clickable" THEN <<i>>
  ELSE <<i>> \o NoteLoop(pg, i + 1)

RECURSIVE PublishProbes(_, _)
\* the publish selectors probed from i on: the loop breaks at an enabled
\* button
PublishProbes(pg, i) ==
  IF i > Len(publish_selectors) THEN <<>>
  ELSE IF pg.publish[i] = "enabled" THEN <<i>>
  ELSE <<i>> \o PublishProbes(pg, i + 1)

RECURSIVE PublishLoop(_, _, _)
\* for selector in publish_selectors: try: publish_button = find_element(...);
\* if publish_button.is_enabled(): break; except: continue -- the button
\* publish_button names after the loop, 0 for None
PublishLoop(pg, i, button) ==
  IF i > Len(publish_selectors) THEN button
  ELSE IF pg.publish[i] = "raises" THEN PublishLoop(pg, i + 1, button)
  ELSE IF pg.publish[i] = "enabled" THEN i
  ELSE PublishLoop(pg, i + 1, i)

\* the selectors a loop probed, each with what the probe gave
Probes(sels, outcome) == [k \in 1..Len(sels) |-> [sel |-> sels[k], got |-> outcome[sels[k]]]]

\* post_note(note_content) on page pg
post_note(pg) ==
  LET probed == NoteLoop(pg, 1)
      note_element == IF probed # <<>> /\ pg.note[probed[Len(probed)]] = "clickable"
                      THEN probed[Len(probed)] ELSE 0
      found == PublishProbes(pg, 1)
      publish_button == PublishLoop(pg, 1, 0)
  IN IF note_element = 0
     THEN [NoPost EXCEPT !.probed = Probes(probed, pg.note), !.result = "False"]
     ELSE IF pg.typing = "raises"
     THEN [NoPost EXCEPT !.probed = Probes(probed, pg.note),
                         !.note_element = note_element, !.result = "False"]
     ELSE [probed |-> Probes(probed, pg.note), note_element |-> note_element,
           typed |-> TRUE,
           found |-> Probes(found, pg.publish),
           publish_button |-> publish_button,
           clicked |-> publish_button,
           result |-> IF publish_button # 0 /\ pg.click = "ok" THEN "True" ELSE "False"]

\* post_random_note(): False without notes; note['content'] raises for a
\* note without content; else what post_note returns
post_random_note(notes, pg) ==
  IF notes = "none" THEN [NoPost EXCEPT !.result = "False"]
  ELSE IF notes = "bad" THEN [NoPost EXCEPT !.result = "raises"]
  ELSE post_note(pg)

\* the post_times a call of setup_schedule works with: the default when the
\* argument is None
TimesOf(arg) == IF arg.given THEN arg.times ELSE DefaultTimes

\* variant: the jobs of the earlier calls are left in the schedule
ScheduleKept(js) == js

\* schedule.clear(): the schedule after it
ScheduleClear(js) == <<>>

\* poster.setup_schedule(post_times): schedule.clear(), then one daily job
\* per time, in the order of the list
SetupSchedule ==
  /\ script = "run_scheduler" /\ pc = "schedule"
  /\ setups < MaxSetups
  /\ \E arg \in SetupArgs :
       /\ post_times' = arg
       /\ jobs' = ScheduleClear(jobs) \o TimesOf(arg)
  /\ setups' = setups + 1
  /\ out' = Append(out, Line("Schedule setup complete", 0))
  /\ UNCHANGED <<inputs, batchVars, post, pc, cancelled, clock, driver, quits, pending, polls, run>>

\* poster.run_scheduler() is entered, after the schedule has been set up
RunScheduler ==
  /\ script = "run_scheduler" /\ pc = "schedule"
  /\ setups >= 1
  /\ out' = Append(out, Line("Starting scheduler", 0))
  /\ pc' = "poll"
  /\ UNCHANGED <<inputs, batchVars, cancelled, clock, posterVars>>

\* schedule.run_pending(): the jobs that are due are run one after the other
RunPending ==
  /\ script = "run_scheduler" /\ pc = "poll"
  /\ polls < MaxPolls
  /\ polls' = polls + 1
  /\ \E due \in SUBSET (1..Len(jobs)) :
       /\ pending' = InOrder(due)
       /\ pc' = IF due = {} THEN "sleep" ELSE "job"
  /\ UNCHANGED <<inputs, batchVars, post, cancelled, out, clock, driver, quits, jobs, setups, post_times, run>>

\* time.sleep(60), and the loop goes round
SleepPoll ==
  /\ script = "run_scheduler" /\ pc = "sleep"
  /\ clock' = clock + PollInterval
  /\ pc' = "poll"
  /\ UNCHANGED <<inputs, batchVars, cancelled, out, posterVars>>

\* run_scheduled_post begins: self.setup_browser(). A new browser is named
\* by self.driver, or the set-up raises, self.driver keeps what it named,
\* and the except clause returns False
SetupBrowser ==
  /\ script = "run_scheduler" /\ pc = "job"
  /\ \E ok \in BOOLEAN :
       IF ok
       THEN /\ quits' = Append(quits, 0)
            /\ driver' = Len(quits) + 1
            /\ run' = [steps |-> <<Did("setup", TRUE)>>, posted |-> FALSE, result |-> "none"]
            /\ pc' = "login"
       ELSE /\ run' = [steps |-> <<Did("setup", FALSE)>>, posted |-> FALSE,
                       result |-> "False"]
            /\ pc' = "finally"
            /\ UNCHANGED <<driver, quits>>
  /\ post' = NoPost
  /\ UNCHANGED <<inputs, batchVars, cancelled, out, clock, jobs, setups, post_times, pending, polls>>

\* if not self.login_to_substack(): return False
Login ==
  /\ script = "run_scheduler" /\ pc = "login"
  /\ \E ok \in BOOLEAN :
       /\ run' = [run EXCEPT !.steps = Append(@, Did("login", ok)),
                             !.result = IF ok THEN "none" ELSE "False"]
       /\ pc' = IF ok THEN "navigate" ELSE "finally"
  /\ UNCHANGED <<inputs, batchVars, post, cancelled, out, clock, driver, quits, jobs, setups, post_times, pending,
                 polls>>

\* if not self.navigate_to_notes(): return False
Navigate ==
  /\ script = "run_scheduler" /\ pc = "navigate"
  /\ \E ok \in BOOLEAN :
       /\ run' = [run EXCEPT !.steps = Append(@, Did("navigate", ok)),
                             !.result = IF ok THEN "none" ELSE "False"]
       /\ pc' = IF ok THEN "post" ELSE "finally"
  /\ UNCHANGED <<inputs, batchVars, post, cancelled, out, clock, driver, quits, jobs, setups, post_times, pending,
                 polls>>

\* success = self.post_random_note(); return success; what it raises is
\* caught by except Exception, which returns False
Post ==
  /\ script = "run_scheduler" /\ pc = "post"
  /\ \E notes \in NotesStates, pg \in Pages :
       LET o == post_random_note(notes, pg).result
       IN /\ o \in PostOutcomes
          /\ post' = post_random_note(notes, pg)
          /\ run' = [steps  |-> Append(run.steps, Did("post", o = "True")),
                     posted |-> o = "True",
                     result |-> IF o = "True" THEN "True" ELSE "False"]
  /\ pc' = "finally"
  /\ UNCHANGED <<inputs, batchVars, cancelled, out, clock, driver, quits, jobs, setups, post_times, pending,
                 polls>>

\* variant: the browser is quit only at the end of a run that posted
QuitsBrowserAfterPost == driver # 0 /\ run.result = "True"

\* if self.driver: of the finally clause
QuitsBrowser == driver # 0

\* finally: if self.driver: self.driver.quit(). When quit raises, the
\* exception replaces the value being returned, leaves run_scheduled_post
\* and schedule.run_pending, and is caught by the except Exception of
\* run_scheduler, after its loop
Finally ==
  /\ script = "run_scheduler" /\ pc = "finally"
  /\ \E raises \in (IF QuitsBrowser THEN BOOLEAN ELSE {FALSE}) :
       /\ quits' = IF QuitsBrowser THEN [quits EXCEPT ![driver] = @ + 1] ELSE quits
       /\ IF raises
          THEN /\ run' = [run EXCEPT !.steps = Append(@, Did("quit", FALSE)),
                                     !.result = "raised"]
               /\ out' = Append(out, Line("Scheduler error", 0))
               /\ pc' = "error"
               /\ UNCHANGED pending
          ELSE /\ run' = IF QuitsBrowser
                         THEN [run EXCEPT !.steps = Append(@, Did("quit", TRUE))]
                         ELSE run
               /\ pending' = Tail(pending)
               /\ pc' = IF Len(pending) > 1 THEN "job" ELSE "sleep"
               /\ UNCHANGED out
  /\ UNCHANGED <<inputs, batchVars, post, cancelled, clock, driver, jobs, setups, post_times, polls>>

\* KeyboardInterrupt in run_scheduler: in the sleep or between the steps of
\* a job. In a job no except Exception catches it, the finally clause quits
\* the browser self.driver names, and the except KeyboardInterrupt of
\* run_scheduler ends the loop, or its except Exception when that quit
\* raises
InterruptScheduler ==
  /\ script = "run_scheduler"
  /\ pc \in {"poll", "sleep", "job", "login", "navigate", "post", "finally"}
  /\ cancelled' = TRUE
  /\ LET quitting == pc \in {"login", "navigate", "post", "finally"} /\ QuitsBrowser
     IN /\ quits' = IF quitting THEN [quits EXCEPT ![driver] = @ + 1] ELSE quits
        /\ \E raises \in (IF quitting THEN BOOLEAN ELSE {FALSE}) :
             /\ out' = Append(out, Line(IF raises THEN "Scheduler error"
                                        ELSE "Scheduler stopped by user", 0))
             /\ pc' = IF raises THEN "error" ELSE "stopped"
  /\ UNCHANGED <<inputs, batchVars, post, clock, driver, jobs, setups, post_times, pending, polls, run>>

\* main, choice "1": poster.setup_browser(); what it raises is caught by
\* the except Exception of main
MainSetupBrowser ==
  /\ script = "post_single_note" /\ pc = "m_setup"
  /\ \E ok \in BOOLEAN :
       IF ok
       THEN /\ quits' = Append(quits, 0)
            /\ driver' = Len(quits) + 1
            /\ run' = [steps |-> <<Did("setup", TRUE)>>, posted |-> FALSE, result |-> "none"]
            /\ pc' = "m_login"
            /\ UNCHANGED out
       ELSE /\ run' = [steps |-> <<Did("setup", FALSE)>>, posted |-> FALSE,
                       result |-> "raised"]
            /\ out' = Append(out, Line("Error", 0))
            /\ pc' = "exit"
            /\ UNCHANGED <<driver, quits>>
  /\ post' = NoPost
  /\ UNCHANGED <<inputs, batchVars, cancelled, clock, jobs, setups, post_times, pending, polls>>

\* if poster.login_to_substack() and ...
MainLogin ==
  /\ script = "post_single_note" /\ pc = "m_login"
  /\ \E ok \in BOOLEAN :
       /\ run' = [run EXCEPT !.steps = Append(@, Did("login", ok))]
       /\ pc' = IF ok THEN "m_navigate" ELSE "m_quit"
  /\ UNCHANGED <<inputs, batchVars, post, cancelled, out, clock, driver, quits, jobs, setups, post_times, pending,
                 polls>>

\* ... and poster.navigate_to_notes():
MainNavigate ==
  /\ script = "post_single_note" /\ pc = "m_navigate"
  /\ \E ok \in BOOLEAN :
       /\ run' = [run EXCEPT !.steps = Append(@, Did("navigate", ok))]
       /\ pc' = IF ok THEN "m_post" ELSE "m_quit"
  /\ UNCHANGED <<inputs, batchVars, post, cancelled, out, clock, driver, quits, jobs, setups, post_times, pending,
                 polls>>

\* poster.post_random_note(): its value is dropped; what it raises is caught
\* by the except Exception of main, past the quit
MainPost ==
  /\ script = "post_single_note" /\ pc = "m_post"
  /\ \E notes \in NotesStates, pg \in Pages :
      LET o == post_random_note(notes, pg).result
      IN
       /\ o \in PostOutcomes
       /\ post' = post_random_note(notes, pg)
       /\ run' = [steps  |-> Append(run.steps, Did("post", o = "True")),
                  posted |-> o = "True",
                  result |-> IF o = "raises" THEN "raised" ELSE "none"]
       /\ out' = IF o = "raises" THEN Append(out, Line("Error", 0)) ELSE out
       /\ pc' = IF o = "raises" THEN "exit" ELSE "m_quit"
  /\ UNCHANGED <<inputs, batchVars, cancelled, clock, driver, quits, jobs, setups, post_times, pending, polls>>

\* if poster.driver: poster.driver.quit()
MainQuit ==
  /\ script = "post_single_note" /\ pc = "m_quit"
  /\ quits' = [quits EXCEPT ![driver] = @ + 1]
  /\ \E raises \in BOOLEAN :
       /\ run' = [run EXCEPT !.steps = Append(@, Did("quit", ~raises)),
                             !.result = IF raises THEN "raised" ELSE "none"]
       /\ out' = IF raises THEN Append(out, Line("Error", 0)) ELSE out
  /\ pc' = "exit"
  /\ UNCHANGED <<inputs, batchVars, post, cancelled, clock, driver, jobs, setups, post_times, pending, polls>>

Next ==
  \/ SetupSchedule \/ RunScheduler \/ RunPending \/ SleepPoll \/ SetupBrowser \/ Login \/ Navigate
  \/ Post \/ Finally \/ InterruptScheduler
  \/ MainSetupBrowser \/ MainLogin \/ MainNavigate \/ MainPost \/ MainQuit
  \/ ForNext \/ ForEnd \/ Get \/ RaiseForStatus \/ MakeSoup \/ TopicsLoop
  \/ LinksLoop \/ StoreResult \/ Sleep \/ InterruptScraper \/ MainSummary
  \/ \E i \in Targets : TaskStart(i)
  \/ \E i \in Targets : TaskFinish(i)
  \/ GatherReturn \/ AsyncSummary \/ InterruptAsync

Spec == Init /\ [][Next]_vars

\* the steps of the scripts themselves, without the interrupts
Step ==
  \/ SetupSchedule \/ RunScheduler \/ RunPending \/ SleepPoll \/ SetupBrowser \/ Login \/ Navigate
  \/ Post \/ Finally
  \/ MainSetupBrowser \/ MainLogin \/ MainNavigate \/ MainPost \/ MainQuit
  \/ ForNext \/ ForEnd \/ Get \/ RaiseForStatus \/ MakeSoup \/ TopicsLoop
  \/ LinksLoop \/ StoreResult \/ Sleep \/ MainSummary
  \/ \E i \in Targets : TaskStart(i)
  \/ \E i \in Targets : TaskFinish(i)
  \/ GatherReturn \/ AsyncSummary

\* a running script keeps taking steps: every fetch eventually returns
LiveSpec == Init /\ [][Next]_vars /\ WF_vars(Step)

TypeOK ==
  /\ pc \in {"for", "get", "status", "soup", "topics", "links", "append", "sleep",
             "returned", "exit", "interrupted", "gather", "summary", "raised",
             "schedule", "poll", "sleep", "job", "login", "navigate", "post", "finally",
             "stopped", "error", "m_setup", "m_login", "m_navigate", "m_post", "m_quit"}
  /\ polls \in 0..MaxPolls
  /\ setups \in 0..MaxSetups
  /\ post_times \in SetupArgs
  /\ driver \in 0..Len(quits)
  /\ idx \in 0..NumTargets
  /\ Len(all_data) <= NumTargets

\* ---------------------------------------------------------------------------
\* Vocabulary of the properties
\* ---------------------------------------------------------------------------

\* scrape_reddit_python_topics has returned its list
Returned == script = "scraper" /\ pc \in {"returned", "exit"}

\* asyncio.gather has returned its list and the script has kept it
Gathered ==
  /\ script \in {"web_scraper_example", "simple_example", "multiple_async_tasks"}
  /\ pc \in {"summary", "exit"}

\* the positions of a list that hold an entry of target t
EntriesOf(list, t) == {k \in 1..Len(list) : list[k].subreddit = subreddits[t]}

\* the error lines printed for target t
ErrorLines(t) ==
  {k \in 1..Len(out) : /\ out[k].msg \in {"Error fetching", "Error parsing"}
                       /\ out[k].target = t}

\* the requests issued for target t
RequestsOf(t) == {k \in 1..Len(reqLog) : reqLog[k].target = t}

\* the targets of the batch that succeed, and those that fail
Succeeding == {t \in Targets : fault[t] = "none"}
Failing    == Targets \ Succeeding

\* an entry holds the records of the document of target t
HoldsRecordsOf(entry, t) ==
  /\ entry.subreddit = subreddits[t]
  /\ entry.python_topics = FilterTopics(doc[t].headings)
  /\ entry.discussions = FilterDiscussions(doc[t].links, {})

HasRecords(entry) == entry.python_topics # <<>> \/ entry.discussions # <<>>

\* target 2 meets a network error, targets 1 and 3 succeed
PartialFailureBatch == fault = (1 :> "none") @@ (2 :> "network") @@ (3 :> "none")

\* ---------------------------------------------------------------------------
\* C1  completeness
\* ---------------------------------------------------------------------------

\* C1 as stated: the report holds exactly one outcome per target, so the
\* number of outcomes equals the number of targets.
C1_OneOutcomePerTarget ==
  /\ Returned => Len(data) = NumTargets
  /\ Gathered => Len(results) = NumTargets

\* C1 amended: the list gather returns holds exactly one result per site; the
\* list the scraper returns holds exactly one entry for every target that
\* succeeded and none for a target that failed, so its length is the number
\* of successful targets.
C1_OneEntryPerSuccess ==
  /\ Returned =>
       /\ \A t \in Targets :
            Cardinality(EntriesOf(data, t)) = IF t \in Succeeding THEN 1 ELSE 0
       /\ Len(data) = Cardinality(Succeeding)
  /\ (Gathered /\ script = "web_scraper_example") =>
       /\ Len(results) = NumTargets
       /\ \A i \in Targets : results[i].url = sites[i]

C1_Witness ==
  /\ Returned
  /\ Failing # {} /\ Succeeding # {}
  /\ Len(data) = Cardinality(Succeeding)

\* ---------------------------------------------------------------------------
\* C2  failure isolation
\* ---------------------------------------------------------------------------

\* C2: whatever targets fail, every target is still fetched, and every target
\* that does not fail itself has its records in the report; in the async
\* batch every site has its own result, a failure of one site changing no
\* other result.
C2_FailureIsolation ==
  /\ Returned =>
       \A t \in Targets :
          /\ RequestsOf(t) # {}
          /\ t \in Succeeding =>
               \E k \in 1..Len(data) : HoldsRecordsOf(data[k], t)
  /\ (Gathered /\ script = "web_scraper_example") =>
       \A i \in Targets :
          results[i] = [url |-> sites[i], success |-> fault[i] \notin {"network", "parse"}]

C2_Witness ==
  /\ Returned
  /\ fault[1] = "http" /\ fault[2] = "none" /\ fault[3] = "none"
  /\ Len(data) = 2
  /\ HoldsRecordsOf(data[1], 2) /\ HoldsRecordsOf(data[2], 3)

\* ---------------------------------------------------------------------------
\* C3  partial failure scenario
\* ---------------------------------------------------------------------------

\* C3 as stated: with target 2 failing by a network error the report holds 3
\* outcomes, the second one with empty records.
C3_ThreeOutcomes ==
  (Returned /\ PartialFailureBatch) =>
     /\ Len(data) = 3
     /\ ~HasRecords(data[2])

\* C3 amended: in that batch the scraper returns 2 entries, those of targets
\* 1 and 3 with their records, and none for target 2, whose network error is
\* only printed (one error line); the async batch returns 3 results with
\* success flags true, false, true and success_count = 2.
C3_PartialFailure ==
  /\ (Returned /\ PartialFailureBatch) =>
       /\ Len(data) = 2
       /\ HoldsRecordsOf(data[1], 1)
       /\ HoldsRecordsOf(data[2], 3)
       /\ EntriesOf(data, 2) = {}
       /\ Cardinality(ErrorLines(2)) = 1
       /\ out[CHOOSE k \in ErrorLines(2) : TRUE].msg = "Error fetching"
       /\ ErrorLines(1) = {} /\ ErrorLines(3) = {}
  /\ (script = "web_scraper_example" /\ pc = "exit" /\ PartialFailureBatch) =>
       /\ Len(results) = 3
       /\ results[1].success /\ ~results[2].success /\ results[3].success
       /\ success_count = 2

C3_Witness ==
  /\ Returned /\ PartialFailureBatch
  /\ Len(data) = 2
  /\ HasRecords(data[1]) /\ HasRecords(data[2])

\* ---------------------------------------------------------------------------
\* C4  report order
\* ---------------------------------------------------------------------------

\* C4 as stated: the outcome of target i is at position i of the report.
C4_OutcomeAtOwnPosition ==
  /\ Returned => \A k \in 1..Len(data) : data[k].subreddit = subreddits[k]
  /\ Gathered => \A i \in Targets : results[i] = taskResult[i]

\* C4 amended: the list gather returns has the result of awaitable i at
\* position i whatever the completion order; the list the scraper returns
\* keeps the enumeration order of the targets it holds, but a target's entry
\* is at position i only if no earlier target failed.
C4_ReportOrder ==
  /\ Gathered =>
       \A i \in Targets :
          /\ script = "web_scraper_example" => results[i].url = sites[i]
          /\ script = "simple_example" => results[i].text = workNames[i]
  /\ Returned =>
       /\ \A k, l \in 1..Len(data) :
            k < l => \E t, u \in Targets :
                        /\ t < u
                        /\ data[k].subreddit = subreddits[t]
                        /\ data[l].subreddit = subreddits[u]
       /\ \A t \in Succeeding :
            data[Cardinality({u \in Succeeding : u <= t})].subreddit = subreddits[t]

C4_Witness ==
  /\ Gathered /\ script = "simple_example"
  /\ finishOrder = <<2, 3, 1>>
  /\ results[1].text = "Task A" /\ results[2].text = "Task B" /\ results[3].text = "Task C"

\* ---------------------------------------------------------------------------
\* C5  reconciliation
\* ---------------------------------------------------------------------------

\* the failures the scraper reported: its error lines
ScraperFailureCount ==
  Cardinality({k \in 1..Len(out) : out[k].msg \in {"Error fetching", "Error parsing"}})

\* the failures of the async batch: the results whose success is false
AsyncFailureCount == Cardinality({i \in DOMAIN results : ~results[i].success})

SuccessWithRecords(t) == \E k \in EntriesOf(all_data, t) : HasRecords(all_data[k])
SuccessEmpty(t)       == \E k \in EntriesOf(all_data, t) : ~HasRecords(all_data[k])
Failure(t)            == ErrorLines(t) # {}

\* C6: a target that failed is never in the list with records, also when it
\* failed after records were extracted, and once the list is returned
\* exactly one of success with records, success without records and failure
\* holds for every target.
C6_Exclusivity ==
  /\ \A t \in Targets : ~(Failure(t) /\ SuccessWithRecords(t))
  /\ \A t \in Failing : \A k \in EntriesOf(all_data, t) : ~HasRecords(all_data[k])
  /\ Returned =>
       \A t \in Targets :
          /\ SuccessWithRecords(t) \/ SuccessEmpty(t) \/ Failure(t)
          /\ ~(SuccessWithRecords(t) /\ SuccessEmpty(t))
          /\ ~(SuccessEmpty(t) /\ Failure(t))

C6_Witness ==
  /\ Returned
  /\ \E t \in Targets :
       /\ fault[t] = "extract"
       /\ FilterTopics(doc[t].headings) # <<>>
       /\ Failure(t)
       /\ EntriesOf(data, t) = {}

\* ---------------------------------------------------------------------------
\* C7  politeness delay
\* ---------------------------------------------------------------------------

\* C7: every request after the first is issued at least PerTargetDelay after
\* the request before it completed, whether that one succeeded or failed
\* (all subreddits are on one origin).
C7_PolitenessDelay ==
  \A k \in 2..Len(reqLog) :
     reqLog[k].issued >= reqLog[k - 1].completed + PerTargetDelay

\* ---------------------------------------------------------------------------
\* C8  cancellation
\* ---------------------------------------------------------------------------

\* C8 as stated: once the interrupt has arrived the run returns a report,
\* holding the outcomes of the targets completed before it.
C8_ReportAfterInterrupt ==
  cancelled =>
     \/ script = "scraper" /\ pc \in {"returned", "exit"} /\ data = all_data
     \/ script # "scraper" /\ pc \in {"summary", "exit"}

\* C8 amended: the step that delivers the interrupt, and every step after
\* it, starts no per-target unit, and no report is returned at all: the
\* interrupt leaves the batch run as an exception, data (results) is never
\* assigned and the outcomes collected so far do not reach the caller.
C8_NoReportAfterInterrupt ==
  /\ []((cancelled /\ script \in BatchScripts) => /\ pc = "interrupted"
                                                    /\ data = <<>>
                                                    /\ results = <<>>)
  /\ [][cancelled' => /\ reqLog' = reqLog
                      /\ idx' = idx
                      /\ all_data' = all_data
                      /\ \A i \in Targets : task[i] = "created" => task'[i] # "running"]_vars

\* the interrupt arrives after target 1 completed and before target 2 began
C8_Witness ==
  /\ cancelled /\ script = "scraper"
  /\ idx = 1 /\ Len(all_data) = 1
  /\ Len(reqLog) = 1
  /\ pc = "interrupted" /\ data = <<>>

\* ---------------------------------------------------------------------------
\* C9  termination
\* ---------------------------------------------------------------------------

\* target t has produced its outcome: an entry or an error line
Processed(t) == EntriesOf(all_data, t) # {} \/ ErrorLines(t) # {}

\* C9: unless an interrupt arrives the batch run eventually returns its
\* list, and when it returns every target has been fetched and has produced
\* its outcome (every coroutine has returned) and none is in flight.
C9_Termination ==
  /\ script \in BatchScripts \ {"async_requests"} => <>(cancelled \/ Returned \/ Gathered)
  /\ [](Returned => /\ idx = NumTargets
                    /\ \A t \in Targets : RequestsOf(t) # {} /\ Processed(t))
  /\ [](Gathered => \A i \in Targets : task[i] = "finished" /\ i \in DOMAIN taskResult)

C9_Witness ==
  /\ Returned /\ ~cancelled
  /\ fault[3] = "extract"
  /\ \A t \in Targets : Processed(t)

\* ---------------------------------------------------------------------------
\* C10  failure as data
\* ---------------------------------------------------------------------------

\* C10 as stated: every failure is turned into a failure value of its target
\* in what the batch run returns.
C10_FailureValuePerTarget ==
  /\ Returned => \A t \in Failing : EntriesOf(data, t) # {}
  /\ (Gathered /\ script = "web_scraper_example") =>
       \A i \in Targets : fault[i] # "none" => ~results[i].success

\* the line an except clause prints for a fault
ErrorLineOf(f) == IF f \in {"network", "http"} THEN "Error fetching" ELSE "Error parsing"

\* the loop is past target t
Past(t) == script = "scraper" /\ (t < idx \/ (t = idx /\ pc = "for") \/ Returned)

\* C10 amended: no failure leaves the batch run as an exception (without an
\* interrupt, control stays in the script or has returned). The scraper
\* makes no value of a failure: it prints one line for the target, "Error
\* fetching" for a network error or an HTTP error status and "Error parsing"
\* for any other exception, and leaves the target out of the list. A scrape
\* coroutine that raises returns url and success = false, without a kind,
\* and an HTTP error status whose body is JSON is no failure for it.
C10_FailuresNeverPropagate ==
  /\ (script \in {"scraper", "web_scraper_example"} /\ ~cancelled) => pc \in {"for", "get", "status", "soup", "topics", "links", "append",
                            "sleep", "returned", "exit", "gather", "summary"}
  /\ \A t \in Targets :
       (Past(t) /\ fault[t] # "none") =>
          /\ Cardinality(ErrorLines(t)) = 1
          /\ \A k \in ErrorLines(t) : out[k].msg = ErrorLineOf(fault[t])
          /\ EntriesOf(all_data, t) = {}
  /\ script = "web_scraper_example" =>
       \A i \in DOMAIN taskResult :
          /\ DOMAIN taskResult[i] = {"url", "success"}
          /\ ~cancelled => taskResult[i].success = (fault[i] \notin {"network", "parse"})

C10_Witness ==
  /\ Returned
  /\ fault[1] = "network" /\ fault[2] = "http" /\ fault[3] = "parse"
  /\ data = <<>>
  /\ ScraperFailureCount = 3

\* ---------------------------------------------------------------------------
\* Vocabulary of the extraction properties
\* ---------------------------------------------------------------------------

\* the target an entry of the list belongs to
TargetOf(entry) == CHOOSE t \in Targets : subreddits[t] = entry.subreddit

\* the document an entry of the list was extracted from
DocOf(entry) == doc[TargetOf(entry)]

\* the links of a document that point to href
LinksTo(d, href) == {j \in 1..Len(d.links) : d.links[j].href = href}

\* the links of a document that can become a discussion record
Qualifying(d) ==
  {j \in 1..Len(d.links) : /\ Len(Strip(d.links[j].text)) > 1
                           /\ Contains(d.links[j].href, CommentsMarker)}

Least(S) == CHOOSE j \in S : \A k \in S : j <= k

\* ---------------------------------------------------------------------------
\* C11  dedup law
\* ---------------------------------------------------------------------------

\* C11 as stated: no two discussion records of an entry share a URL, and the
\* record of a URL is made from the first link of the document, in document
\* order, that points to it.
C11_FirstLinkKept ==
  \A e \in 1..Len(all_data) :
     LET ds == all_data[e].discussions
         d  == DocOf(all_data[e])
     IN /\ \A i, j \in 1..Len(ds) : i # j => ds[i].url # ds[j].url
        /\ \A i \in 1..Len(ds) :
             ds[i].title = TruncateTitle(Strip(d.links[Least(LinksTo(d, ds[i].url))].text))

\* C11 amended: no two discussion records of an entry share a URL, compared
\* exactly (two URLs that differ in case are different); every URL with a
\* link that qualifies has its record, and the record is made from the first
\* link, in document order, that points to the URL and whose stripped text
\* is longer than 1 character: an earlier link to the same URL with no text
\* is passed over, not kept.
C11_DedupLaw ==
  \A e \in 1..Len(all_data) :
     LET ds == all_data[e].discussions
         d  == DocOf(all_data[e])
     IN /\ \A i, j \in 1..Len(ds) : i # j => ds[i].url # ds[j].url
        /\ {ds[i].url : i \in 1..Len(ds)} = {d.links[j].href : j \in Qualifying(d)}
        /\ \A i \in 1..Len(ds) :
             ds[i].title =
               TruncateTitle(Strip(d.links[Least(LinksTo(d, ds[i].url) \cap Qualifying(d))].text))

C11_Witness ==
  /\ Returned
  /\ doc[1].links = <<[text |-> TextShort, href |-> HrefOne],
                      [text |-> TextLong,  href |-> HrefOne]>>
  /\ Len(data) = 3
  /\ data[1].discussions = <<[title |-> TextShort, url |-> HrefOne, type |-> "discussion"]>>

\* ---------------------------------------------------------------------------
\* C12  dedup scope
\* ---------------------------------------------------------------------------

\* C12: the URLs of the discussion records of an entry are those of the
\* qualifying links of its own document, whatever the other targets of the
\* batch hold: a URL in the documents of two targets has a record in both.
C12_DedupPerDocument ==
  \A e, f \in 1..Len(all_data) :
     LET urls(n) == {all_data[n].discussions[i].url :
                       i \in 1..Len(all_data[n].discussions)}
         hrefs(n) == {DocOf(all_data[n]).links[j].href : j \in Qualifying(DocOf(all_data[n]))}
     IN e # f => \A h \in hrefs(e) \cap hrefs(f) : h \in urls(e) /\ h \in urls(f)

C12_Witness ==
  /\ Returned /\ Len(data) = 3
  /\ doc[1] = DocTopics /\ doc[2] = DocLinks
  /\ \E i \in 1..Len(data[1].discussions) : data[1].discussions[i].url = HrefOne
  /\ \E i \in 1..Len(data[2].discussions) : data[2].discussions[i].url = HrefOne

\* ---------------------------------------------------------------------------
\* C13  truncation law
\* ---------------------------------------------------------------------------

\* C13: the title of a discussion record is the stripped text of its link if
\* that has at most 100 characters, and otherwise its first 100 characters
\* followed by the three dots, 103 characters in all.
C13_TruncationLaw ==
  \A e \in 1..Len(all_data) :
     LET ds == all_data[e].discussions
         d  == DocOf(all_data[e])
     IN \A i \in 1..Len(ds) :
           LET x == Strip(d.links[Least(LinksTo(d, ds[i].url) \cap Qualifying(d))].text)
               t == ds[i].title
           IN IF Len(x) > 100
              THEN /\ Len(t) = 103
                   /\ \A k \in 1..100 : t[k] = x[k]
                   /\ t[101] = "." /\ t[102] = "." /\ t[103] = "."
              ELSE t = x

C13_Witness ==
  /\ Returned /\ Len(data) = 3
  /\ doc[1].links = <<[text |-> TextExact,  href |-> HrefTwo],
                      [text |-> TextLong, href |-> HrefOne]>>
  /\ Len(data[1].discussions) = 2
  /\ data[1].discussions[1].title = TextExact
  /\ Len(data[1].discussions[2].title) = 103

\* ---------------------------------------------------------------------------
\* C14  topic rule
\* ---------------------------------------------------------------------------

\* a keyword occurs in the text, letters compared without regard to case
HasKeyword(x) ==
  \E kw \in Keywords : \E i \in 0..(Len(x) - Len(kw)) :
     \A k \in 1..Len(kw) : LowerChar(x[i + k]) = kw[k]

\* the headings of a document that the rule makes topics
TopicHeadings(d) ==
  {j \in 1..Len(d.headings) : Len(Strip(d.headings[j])) > 3 /\ HasKeyword(Strip(d.headings[j]))}

\* C14: the topic records of an entry are, in order, the stripped texts of
\* the headings of its document that are longer than 3 characters and hold a
\* keyword, compared case-insensitively; "Learning Python Basics" is a topic
\* and "Hi" is not.
C14_TopicRule ==
  \A e \in 1..Len(all_data) :
     LET ts == all_data[e].python_topics
         d  == DocOf(all_data[e])
         titles == {ts[i].title : i \in 1..Len(ts)}
     IN /\ Len(ts) = Cardinality(TopicHeadings(d))
        /\ \A j \in 1..Len(d.headings) :
             (Strip(d.headings[j]) \in titles) <=> (j \in TopicHeadings(d))
        /\ \A i \in 1..Len(ts) : ts[i].type = "python_topic"
        /\ \A j \in 1..Len(d.headings) :
             /\ d.headings[j] = HeadLearning => HeadLearning \in titles
             /\ d.headings[j] = HeadHi => HeadHi \notin titles

C14_Witness ==
  /\ Returned /\ Len(data) = 3
  /\ doc[1].headings = <<HeadLearning>>
  /\ data[1].python_topics = <<[title |-> HeadLearning, type |-> "python_topic"]>>

\* ---------------------------------------------------------------------------
\* C15  single writer per slot
\* ---------------------------------------------------------------------------

\* C15: in every step, under every interleaving of the coroutines, a slot
\* that holds a result keeps it; a slot is filled by the unit of its own
\* target, as that unit finishes, with a value about that target; the list
\* of the scraper keeps its entries, grows by at most one entry per step, the
\* entry of the target being processed, never a second one for it, holding
\* the records of that target's own document; and the fetch result and the
\* record lists a unit works on come from its own target's document (all of
\* it, or the part read before the extraction failed).
C15_SingleWriterPerSlot ==
  [][ /\ \A i \in DOMAIN taskResult :
           i \in DOMAIN taskResult' /\ taskResult'[i] = taskResult[i]
      /\ \A i \in (DOMAIN taskResult') \ (DOMAIN taskResult) :
           /\ task[i] = "running" /\ task'[i] = "finished"
           /\ script = "web_scraper_example" => taskResult'[i].url = sites[i]
           /\ script = "simple_example" => taskResult'[i].text = workNames[i]
      /\ results' # results =>
           /\ results = <<>>
           /\ \A i \in Targets : results'[i] = taskResult[i]
      /\ Len(all_data') \in {Len(all_data), Len(all_data) + 1}
      /\ \A k \in 1..Len(all_data) : all_data'[k] = all_data[k]
      /\ Len(all_data') = Len(all_data) + 1 =>
           /\ EntriesOf(all_data, idx) = {}
           /\ HoldsRecordsOf(all_data'[Len(all_data')], idx)
      /\ response' # response => response'.content = doc[idx]
      /\ soup' # soup => soup' = doc[idx]
      /\ topics' # topics => topics' = FilterTopics(doc[idx].headings)
      /\ discussions' # discussions =>
           \E n \in 0..Len(doc[idx].links) :
              discussions' = FilterDiscussions(SubSeq(doc[idx].links, 1, n), {})
    ]_vars

C15_Witness ==
  /\ script = "web_scraper_example" /\ pc = "gather"
  /\ finishOrder = <<3, 1>>
  /\ task[2] = "running"
  /\ DOMAIN taskResult = {1, 3}
  /\ taskResult[1].url = sites[1] /\ taskResult[3].url = sites[3]

\* ---------------------------------------------------------------------------
\* C16  overlapping execution
\* ---------------------------------------------------------------------------

\* the lines a coroutine prints as it ends
FinishLines == {"done", "finished", "completed", "got data", "failed"}

\* C16 as stated: the per-target pipelines of every batch overlap: in the
\* async demos every unit prints its start line before any prints its end
\* line, and a batch of the scraper that has returned has issued some
\* request before the request of the target before it had completed.
C16_PipelinesOverlap ==
  /\ script # "scraper" =>
       \A k, l \in 1..Len(out) :
          (out[k].msg = "starting" /\ out[l].msg \in FinishLines) => k < l
  /\ (Returned /\ Len(reqLog) >= 2) =>
       \E k \in 2..Len(reqLog) : reqLog[k].issued < reqLog[k - 1].completed

\* C16 amended: the units of the async demos (async_requests,
\* simple_example, multiple_async_tasks, web_scraper_example) overlap: every
\* one has printed its start line before any prints its end line, so no unit
\* has ended while another has not started. The scraper is strictly
\* sequential: the request of a target is issued only when the request of
\* the target before it has completed, in the order of the targets.
C16_OverlapOnlyInAsyncDemos ==
  /\ script # "scraper" =>
       /\ \A k, l \in 1..Len(out) :
            (out[k].msg = "starting" /\ out[l].msg \in FinishLines) => k < l
       /\ (\E i \in Targets : task[i] \in {"finished", "raised"}) =>
            \A j \in Targets : task[j] # "created"
  /\ script = "scraper" =>
       \A k \in 2..Len(reqLog) :
          /\ reqLog[k].issued >= reqLog[k - 1].completed
          /\ reqLog[k].target = reqLog[k - 1].target + 1

C16_Witness ==
  /\ script = "async_requests" /\ pc = "gather"
  /\ \A i \in Targets : task[i] = "running"
  /\ out = <<Line("starting", 1), Line("starting", 2), Line("starting", 3)>>

\* ---------------------------------------------------------------------------
\* C17  aggregate counts
\* ---------------------------------------------------------------------------

\* main has run to its end
MainDone == script = "scraper" /\ pc = "exit"

\* the number of records under key in a list of entries
Count(list, key) ==
  Cardinality(UNION {{<<k, i>> : i \in 1..Len(list[k][key])} : k \in 1..Len(list)})

\* the positions of the lines of a kind in the output
LinesOf(msg) == {k \in 1..Len(out) : out[k].msg = msg}

\* C17: when main has run to its end with a non-empty report it has printed
\* exactly one total line, after one line per entry of the report, in report
\* order, each with the numbers of topics and of discussions of its entry;
\* the totals are the numbers of topics and of discussions of all entries,
\* and the number of subreddits is the number of entries. With an empty
\* report no total is printed.
C17_AggregateCounts ==
  MainDone =>
    IF data = <<>> THEN LinesOf("Total") = {} /\ LinesOf("r/") = {}
    ELSE /\ Cardinality(LinesOf("Total")) = 1
         /\ Cardinality(LinesOf("r/")) = Len(data)
         /\ \A t \in LinesOf("Total") :
              /\ out[t].topics = Count(data, "python_topics")
              /\ out[t].discussions = Count(data, "discussions")
              /\ out[t].subreddits = Len(data)
              /\ \A k \in 1..Len(data) :
                   LET l == out[t - Len(data) + k - 1]
                   IN /\ l.msg = "r/"
                      /\ l.subreddit = data[k].subreddit
                      /\ l.topics = Len(data[k].python_topics)
                      /\ l.discussions = Len(data[k].discussions)
         /\ total_topics = Count(data, "python_topics")
         /\ total_discussions = Count(data, "discussions")

C17_Witness ==
  /\ MainDone /\ Len(data) = 2
  /\ doc[1] = DocTopics /\ doc[3] = DocLinks
  /\ total_topics >= 1 /\ total_discussions >= 2
  /\ \E t \in LinesOf("Total") :
        out[t].subreddits = 2 /\ out[t].discussions = total_discussions

\* ---------------------------------------------------------------------------
\* C18  flat persistence
\* ---------------------------------------------------------------------------

\* save_python_data has reported that it wrote the file
Saved(file) == \E k \in LinesOf("saved") : out[k].file = file

\* the row at which the rows of entry k of the report begin, less one
RowsBefore(k) ==
  1 + Count(SubSeq(data, 1, k - 1), "python_topics")
    + Count(SubSeq(data, 1, k - 1), "discussions")

\* C18: when main has run to its end, an empty report has left no file. The
\* table begins with the header row; then come, for each entry of the report
\* in report order, one row per topic (URL column empty) and after them one
\* row per discussion (with its URL), each with the source and the time of
\* its entry, so that an entry without records has no row; a table reported
\* as saved has all these rows and no other, and one whose write failed
\* stops short of them.
C18_FlatPersistence ==
  MainDone =>
    /\ data = <<>> => DOMAIN files = {}
    /\ Saved(filename_csv) => filename_csv \in DOMAIN files
    /\ Saved(filename_json) => filename_json \in DOMAIN files /\ files[filename_json] = data
    /\ filename_csv \in DOMAIN files =>
         LET csv == files[filename_csv]
             all == 1 + Count(data, "python_topics") + Count(data, "discussions")
         IN /\ csv[1] = CsvHeader
            /\ IF Saved(filename_csv) THEN Len(csv) = all ELSE Len(csv) < all
            /\ \A k \in 1..Len(data) :
                 LET e == data[k]
                     nt == Len(e.python_topics)
                 IN /\ \A i \in 1..nt :
                         RowsBefore(k) + i <= Len(csv) =>
                           csv[RowsBefore(k) + i] =
                             <<e.subreddit, "python_topic", e.python_topics[i].title, <<>>,
                               e.scraped_at>>
                    /\ \A j \in 1..Len(e.discussions) :
                         RowsBefore(k) + nt + j <= Len(csv) =>
                           csv[RowsBefore(k) + nt + j] =
                             <<e.subreddit, "discussion", e.discussions[j].title,
                               e.discussions[j].url, e.scraped_at>>

C18_Witness ==
  /\ MainDone /\ Len(data) = 3
  /\ doc = <<DocTopics, DocEmpty, DocLinks>>
  /\ Saved(filename_csv)
  /\ Len(files[filename_csv]) = 1 + total_topics + total_discussions
  /\ total_topics >= 1 /\ total_discussions >= 3
  /\ files[filename_csv][2][1] = subreddits[1]
  /\ files[filename_csv][Len(files[filename_csv])][1] = subreddits[3]

\* ---------------------------------------------------------------------------
\* C19  trigger loop
\* ---------------------------------------------------------------------------

\* the loop of run_scheduler has ended
LoopEnded == script = "run_scheduler" /\ pc \in {"stopped", "error"}

\* C19: the scheduler polls once per 60 time units, and its loop has ended
\* only if an interrupt was delivered: no outcome of a job, an error while
\* closing the browser included, ends it.
C19_LoopEndsOnlyOnInterrupt ==
  /\ (script = "run_scheduler" /\ pc = "poll") => clock = PollInterval * polls
  /\ LoopEnded => cancelled

\* ---------------------------------------------------------------------------
\* C20  sequential posting workflow
\* ---------------------------------------------------------------------------

\* the place of a step in the workflow
Rank(name) ==
  IF name = "setup" THEN 1 ELSE IF name = "login" THEN 2
  ELSE IF name = "navigate" THEN 3 ELSE IF name = "post" THEN 4 ELSE 5

\* a step of the latest run that succeeded
Succeeded(name) ==
  \E i \in 1..Len(run.steps) : run.steps[i].name = name /\ run.steps[i].ok

\* the latest call of run_scheduled_post is over, and no interrupt ended it
RunOver ==
  /\ script = "run_scheduler" /\ ~cancelled
  /\ run.steps # <<>>
  /\ pc \in {"job", "sleep", "poll", "error"}

\* C20: the steps of a posting run happen in the order setup, login,
\* navigate, post; a note is posted only in a run in which login and
\* navigation succeeded; and run_scheduled_post returns True if its post step
\* succeeded and False on every other path, an exception included.
C20_SequentialWorkflow ==
  script \in PosterScripts =>
    /\ \A i, j \in 1..Len(run.steps) :
         i < j => Rank(run.steps[i].name) < Rank(run.steps[j].name)
    /\ run.posted => Succeeded("login") /\ Succeeded("navigate") /\ Succeeded("post")
    /\ RunOver => /\ run.result \in {"True", "False"}
                  /\ run.result = "True" <=> Succeeded("post")

\* ---------------------------------------------------------------------------
\* C21  browser always closed
\* ---------------------------------------------------------------------------

\* no call of run_scheduled_post is under way
BetweenRuns == script = "run_scheduler" /\ pc \in {"poll", "sleep", "job", "error", "stopped"}

\* C21: whenever no run of run_scheduled_post is under way, whether the
\* latest run returned True or False, raised, or was ended by an interrupt,
\* quit has been called on every browser a run has opened, that of the
\* latest run included.
C21_BrowserAlwaysClosed ==
  BetweenRuns => \A b \in 1..Len(quits) : quits[b] >= 1

C21_Witness ==
  /\ BetweenRuns /\ ~cancelled
  /\ Len(quits) = 2 /\ driver = 2
  /\ run.steps = <<Did("setup", TRUE), Did("login", TRUE), Did("navigate", FALSE),
                   Did("quit", TRUE)>>
  /\ run.result = "False"

\* ---------------------------------------------------------------------------
\* C22  ordered fallback
\* ---------------------------------------------------------------------------

\* C22: post_note probes the note selectors in their listed order, each at
\* most once; every selector before the last one probed raised; the element
\* it uses is the one the last probe gave; and when all the selectors raised
\* it returns False, having typed nothing, looked for no publish button and
\* clicked none.
C22_OrderedFallback ==
  LET p == post.probed
  IN /\ \A k \in 1..Len(p) : p[k].sel = k
     /\ \A k \in 1..(Len(p) - 1) : p[k].got = "raises"
     /\ post.note_element # 0 =>
          /\ p # <<>>
          /\ p[Len(p)].got = "clickable"
          /\ post.note_element = p[Len(p)].sel
     /\ (p # <<>> /\ post.note_element = 0) =>
          /\ Len(p) = Len(note_selectors)
          /\ \A k \in 1..Len(p) : p[k].got = "raises"
          /\ post.result = "False"
          /\ ~post.typed /\ post.found = <<>> /\ post.clicked = 0
     /\ post.typed => post.note_element # 0

C22_Witness ==
  /\ script = "run_scheduler" /\ pc = "finally"
  /\ post.probed = <<[sel |-> 1, got |-> "raises"], [sel |-> 2, got |-> "clickable"]>>
  /\ post.note_element = 2 /\ post.typed

\* ---------------------------------------------------------------------------
\* C23  publish only when enabled
\* ---------------------------------------------------------------------------

\* C23: post_note clicks a publish button, and returns True, only if a probe
\* of the publish selectors gave that button enabled.
C23_PublishOnlyWhenEnabled ==
  /\ post.clicked # 0 =>
       \E k \in 1..Len(post.found) :
          post.found[k].sel = post.clicked /\ post.found[k].got = "enabled"
  /\ (post.result = "True" /\ post.probed # <<>>) => post.clicked # 0

\* ---------------------------------------------------------------------------
\* C24  driver quit at most once
\* ---------------------------------------------------------------------------

\* C24: over the runs of run_scheduled_post on one poster object, quit is
\* called at most once on each browser driver.
C24_QuitAtMostOnce ==
  script = "run_scheduler" => \A b \in 1..Len(quits) : quits[b] <= 1

\* ---------------------------------------------------------------------------
\* C25  schedule replacement
\* ---------------------------------------------------------------------------

\* C25: after any sequence of setup_schedule calls the scheduled jobs are
\* one daily job per entry of the post_times of the most recent call, in
\* their order, ["09:00"] when that call was given none; no job of an
\* earlier call is left.
C25_ScheduleReplacement ==
  (script = "run_scheduler" /\ setups >= 1) =>
     jobs = (IF post_times.given THEN post_times.times ELSE <<"09:00">>)

C25_Witness ==
  /\ script = "run_scheduler" /\ pc = "poll"
  /\ setups = 2
  /\ ~post_times.given
  /\ jobs = <<"09:00">>
  /\ Cardinality(LinesOf("Schedule setup complete")) = 2

\* ---------------------------------------------------------------------------
\* C26  atomic per-target result
\* ---------------------------------------------------------------------------

\* the fields of an entry of the list
EntryFields == {"subreddit", "url", "scraped_at", "python_topics", "discussions"}

\* C26: every entry of the list, while it is built and once it is returned,
\* carries its subreddit name, url, timestamp and both record lists as
\* extracted from the whole document of its target; a target whose fetch or
\* extraction raises has no entry at any time; and "Analysis failed" is
\* printed only when the returned list is empty, and, once main has run to
\* its end, exactly when no target succeeded.
C26_AtomicEntries ==
  script = "scraper" =>
    /\ \A k \in 1..Len(all_data) :
         /\ DOMAIN all_data[k] = EntryFields
         /\ \E t \in Succeeding :
              /\ HoldsRecordsOf(all_data[k], t)
              /\ all_data[k].url = subreddits[t]
         /\ all_data[k].scraped_at \in 0..clock
    /\ \A t \in Failing : EntriesOf(all_data, t) = {}
    /\ Returned => data = all_data
    /\ LinesOf("Analysis failed") # {} => (pc = "exit" /\ data = <<>> /\ Succeeding = {})
    /\ MainDone => (LinesOf("Analysis failed") # {} <=> Succeeding = {})

C26_Witness ==
  /\ MainDone
  /\ \E t \in Targets :
       /\ fault[t] = "extract"
       /\ FilterTopics(doc[t].headings) # <<>>
       /\ EntriesOf(data, t) = {}
  /\ \E k \in 1..Len(data) : HasRecords(data[k])
  /\ LinesOf("Analysis failed") = {}
====
